---- MODULE Spec2Model ----
(***************************************************************************)
(* Unifly backend: the document-to-vector synchronization helper           *)
(* (src/integrations/internal/langchain.py) over the Qdrant Vector Index   *)
(* and the Mongo "joiner" Join Table.  Every store operation of a helper   *)
(* call is one atomic step; a store operation may raise.                   *)
(***************************************************************************)
EXTENDS Integers, Sequences, FiniteSets, TLC

\* ------------------------------------------------------------------ bounds
MaxCalls == 2        \* helper calls started in one behaviour
MaxChunks == 2       \* chunks the splitter yields for one text
MaxFail == 1         \* store operations that raise in one behaviour
MaxRequests == 3     \* requests the CRUD handlers serve in one behaviour
MaxGets == 3         \* client getter and close calls started in one behaviour

\* ------------------------------------------------------------------ inputs
Procs == {"h1", "h2"}            \* request handlers that may call the helper
SeqProcs == {"h1"}               \* the single caller of the sequential runs
Collections == {"scholarships", "universities"}

\* A metadata or filter dictionary is the set of its <<key, value>> items.
MetaA == {<<"id", 1>>, <<"ref", 1>>}
MetaC == {<<"id", 2>>, <<"ref", 1>>}
Metas == {MetaA, MetaC}
Filters == {{}, {<<"id", 1>>}, {<<"id", 2>>}}
Texts == 0..MaxChunks            \* a text, by the number of chunks it splits into

NoCall == [op |-> "none", c |-> "scholarships", f |-> {}, t |-> 0, m |-> {}]
NoRet == [status |-> "none", value |-> <<>>, phase |-> "none"]
NoLoc == [qids |-> <<>>, exists |-> FALSE, result |-> <<>>]

\* the entity types the CRUD routers serve, by the name of their collection
EntityTypes ==
    {"scholarships", "scholarship_providers", "universities", "university_faculties",
     "university_departments", "university_campuses", "university_programs",
     "university_people", "university_research"}

\* the lazily created module-level clients, by the service they connect to
Getters == {"mongodb", "qdrant", "embedding", "llm"}

NoReq == [op |-> "none", entity |-> "scholarships", f |-> {}, data |-> {},
          docs |-> <<>>, stores |-> <<>>]
NoResp == [success |-> FALSE, matched |-> 0, modified |-> 0, deleted |-> 0]
NoGet == [g |-> "none", at |-> "idle", inst |-> 0, out |-> "none", value |-> 0,
          prior |-> "none", settled |-> 0, fault |-> FALSE]
NoManage == [fn |-> "none", arg |-> "none", at |-> "idle", fault |-> FALSE,
             out |-> "none", value |-> "none", had |-> 0]

VARIABLES
    vecIndex,    \* Vector Index: collection -> set of Vector Entries [id, meta, chunk]
    qdrantCols,  \* the Qdrant collections that exist
    joinTable,   \* Join Table: collection -> sequence of Join Entries [meta, qids]
    nextId,      \* Vector Entry IDs handed out so far (IDs are fresh UUIDs)
    pc,          \* per caller: the store operation it is about to perform
    call,        \* per caller: the helper call in progress or last completed
    phase,       \* per caller: the helper function executing ("delete" / "insert")
    loc,         \* per caller: local variables qids, exists, result
    log,         \* per caller: the store operations of the call, with their outcome
    pre,         \* per caller: the stores as they were when the call started
    ret,         \* per caller: outcome of the last completed call
    ncalls,      \* helper calls started
    nfail,       \* store operations that raised
    documents,   \* document store: entity type -> sequence of Records
    req,         \* the last request a CRUD handler served, and the state it found
    resp,        \* the response to that request
    handle,      \* per service: the module-level client (_client, _embedding, _llm); 0 is None
    made,        \* per service: the clients constructed so far
    outcomes,    \* per service: how the completed getter and close calls ended, in order
    getter,      \* per caller: the client getter call in progress or last completed
    manage       \* per caller: the connection management call in progress or last completed

vars == <<vecIndex, qdrantCols, joinTable, nextId, pc, call, phase, loc, log, pre, ret,
          ncalls, nfail, documents, req, resp, handle, made, outcomes, getter, manage>>
stores == <<vecIndex, qdrantCols, joinTable, nextId>>
helperVars == <<pc, call, phase, loc, log, pre, ret>>
handlerVars == <<documents, req, resp>>
clientVars == <<handle, made, outcomes, getter, manage>>

\* ------------------------------------------------------------------ helpers
\* Mongo equality filter: every item of the filter is an item of the document.
Matches(f, m) == f \subseteq m

RECURSIVE FlattenQids(_)
\* [item for doc in docs for item in doc["qids"]]
FlattenQids(docs) ==
    IF docs = <<>> THEN <<>> ELSE Head(docs).qids \o FlattenQids(Tail(docs))

\* joiner.find(filters): the matching Join Entries in natural order
FindDocs(c, f) == SelectSeq(joinTable[c], LAMBDA e : Matches(f, e.meta))

\* _splitter.split_text(text): the chunks of a text, in order
split_text(t) == [i \in 1..t |-> i]

SeqToSet(s) == {s[i] : i \in 1..Len(s)}
VecIds(c) == {v.id : v \in vecIndex[c]}

Snapshot == [vec |-> vecIndex, cols |-> qdrantCols, join |-> joinTable, nextId |-> nextId]

Logged(p, op, outcome) == Append(log[p], <<op, outcome>>)

CanFail == nfail < MaxFail

\* ------------------------------------------------------------------ Init
\* no request served yet
InitHandlers ==
    /\ documents = [e \in EntityTypes |-> <<>>]
    /\ req = NoReq
    /\ resp = NoResp

\* _client = None, _embedding = None, _llm = None
InitClients ==
    /\ handle = [g \in Getters |-> 0]
    /\ made = [g \in Getters |-> 0]
    /\ outcomes = [g \in Getters |-> <<>>]
    /\ getter = [p \in Procs |-> NoGet]
    /\ manage = [p \in Procs |-> NoManage]

Init ==
    /\ vecIndex = [c \in Collections |-> {}]
    /\ qdrantCols = {}
    /\ joinTable = [c \in Collections |-> <<>>]
    /\ nextId = 0
    /\ pc = [p \in Procs |-> "idle"]
    /\ call = [p \in Procs |-> NoCall]
    /\ phase = [p \in Procs |-> "none"]
    /\ loc = [p \in Procs |-> NoLoc]
    /\ log = [p \in Procs |-> <<>>]
    /\ pre = [p \in Procs |-> Snapshot]
    /\ ret = [p \in Procs |-> NoRet]
    /\ ncalls = 0
    /\ nfail = 0
    /\ InitHandlers
    /\ InitClients

\* ------------------------------------------------------------------ calls
Begin(p, cl, ph, label) ==
    /\ pc[p] = "idle"
    /\ ncalls < MaxCalls
    /\ ncalls' = ncalls + 1
    /\ call' = [call EXCEPT ![p] = cl]
    /\ phase' = [phase EXCEPT ![p] = ph]
    /\ pc' = [pc EXCEPT ![p] = label]
    /\ loc' = [loc EXCEPT ![p] = NoLoc]
    /\ log' = [log EXCEPT ![p] = <<>>]
    /\ pre' = [pre EXCEPT ![p] = Snapshot]
    /\ ret' = [ret EXCEPT ![p] = NoRet]
    /\ UNCHANGED <<stores, nfail>>

\* insert_vecdb(collection_name, text, metadata): split, then get_langchain_qdrant
insert_vecdb(p) ==
    \E c \in Collections, t \in Texts, m \in Metas :
        Begin(p, [op |-> "insert", c |-> c, f |-> {}, t |-> t, m |-> m], "insert", "embed")

\* delete_vecdb(collection_name, filters): starts with the Join Table lookup
delete_vecdb(p) ==
    \E c \in Collections, f \in Filters :
        Begin(p, [op |-> "delete", c |-> c, f |-> f, t |-> 0, m |-> {}], "delete", "find")

\* mutant: update_vecdb that inserts without deleting first
update_vecdb_InsertOnly(p) ==
    \E c \in Collections, f \in Filters, t \in Texts, m \in Metas :
        Begin(p, [op |-> "update", c |-> c, f |-> f, t |-> t, m |-> m], "insert", "embed")

\* update_vecdb(collection_name, filters, text, metadata): delete_vecdb first
update_vecdb(p) ==
    \E c \in Collections, f \in Filters, t \in Texts, m \in Metas :
        Begin(p, [op |-> "update", c |-> c, f |-> f, t |-> t, m |-> m], "delete", "find")

\* ------------------------------------------------------------------ returns
\* An exception leaves the helper: every except clause of insert_vecdb,
\* delete_vecdb and update_vecdb logs and re-raises.
Throw(p, op) ==
    /\ log' = [log EXCEPT ![p] = Logged(p, op, "raise")]
    /\ pc' = [pc EXCEPT ![p] = "idle"]
    /\ ret' = [ret EXCEPT ![p] = [status |-> "raise", value |-> <<>>, phase |-> phase[p]]]
    /\ UNCHANGED <<stores, call, phase, loc, pre, ncalls>>

\* A store operation fails (connection lost, timeout, server error).
Raise(p, op) ==
    /\ CanFail
    /\ nfail' = nfail + 1
    /\ Throw(p, op)

\* delete_vecdb returns val: to the caller, or to update_vecdb, which ignores
\* the value and goes on with insert_vecdb.
ReturnFromDelete(p, val) ==
    IF call[p].op = "update"
    THEN /\ phase' = [phase EXCEPT ![p] = "insert"]
         /\ pc' = [pc EXCEPT ![p] = "embed"]
         /\ UNCHANGED ret
    ELSE /\ pc' = [pc EXCEPT ![p] = "idle"]
         /\ ret' = [ret EXCEPT ![p] = [status |-> "ok", value |-> val, phase |-> "delete"]]
         /\ UNCHANGED phase

\* insert_vecdb returns result; update_vecdb returns it unchanged.
ReturnFromInsert(p, val) ==
    /\ pc' = [pc EXCEPT ![p] = "idle"]
    /\ ret' = [ret EXCEPT ![p] = [status |-> "ok", value |-> val, phase |-> "insert"]]
    /\ UNCHANGED phase

\* ------------------------------------------------------------------ delete_vecdb
\* mutant: the emptiness test written as len(qids) >= 0
DeleteHasWork_Always(qids) == Len(qids) >= 0

\* if len(qids) > 0
DeleteHasWork(qids) == Len(qids) > 0

\* joiner = get_mongodb_collection(...); docs = joiner.find(filters); qids = [...]
find_Ok(p) ==
    LET qids == FlattenQids(FindDocs(call[p].c, call[p].f)) IN
    /\ log' = [log EXCEPT ![p] = Logged(p, "find", "ok")]
    /\ loc' = [loc EXCEPT ![p].qids = qids]
    /\ IF DeleteHasWork(qids)
       THEN /\ pc' = [pc EXCEPT ![p] = "embed"]
            /\ UNCHANGED <<ret, phase>>
       ELSE ReturnFromDelete(p, FALSE)
    /\ UNCHANGED <<stores, call, pre, ncalls, nfail>>

find(p) ==
    /\ pc[p] = "find"
    /\ \/ find_Ok(p)
       \/ Raise(p, "find")

\* mutant: a Vector Index delete that removes nothing
vectorstore_delete_Ok_Noop(p) ==
    /\ log' = [log EXCEPT ![p] = Logged(p, "vecdel", "ok")]
    /\ pc' = [pc EXCEPT ![p] = "joindel"]
    /\ UNCHANGED <<stores, call, phase, loc, pre, ret, ncalls, nfail>>

\* mutant: a Vector Index delete by metadata filter instead of by chunk ID
vectorstore_delete_Ok_ByFilter(p) ==
    /\ vecIndex' = [vecIndex EXCEPT ![call[p].c] =
                        {v \in @ : ~Matches(call[p].f, v.meta)}]
    /\ log' = [log EXCEPT ![p] = Logged(p, "vecdel", "ok")]
    /\ pc' = [pc EXCEPT ![p] = "joindel"]
    /\ UNCHANGED <<qdrantCols, joinTable, nextId, call, phase, loc, pre, ret, ncalls, nfail>>

\* vectorstore.delete(qids): deleting an ID that is absent is no error
vectorstore_delete_Ok(p) ==
    /\ vecIndex' = [vecIndex EXCEPT ![call[p].c] =
                        {v \in @ : v.id \notin SeqToSet(loc[p].qids)}]
    /\ log' = [log EXCEPT ![p] = Logged(p, "vecdel", "ok")]
    /\ pc' = [pc EXCEPT ![p] = "joindel"]
    /\ UNCHANGED <<qdrantCols, joinTable, nextId, call, phase, loc, pre, ret, ncalls, nfail>>

vectorstore_delete(p) ==
    /\ pc[p] = "vecdel"
    /\ \/ vectorstore_delete_Ok(p)
       \/ Raise(p, "vecdel")

\* mutant: delete_vecdb that leaves the Join Table as it is
delete_many_Ok_Kept(p) ==
    /\ log' = [log EXCEPT ![p] = Logged(p, "joindel", "ok")]
    /\ ReturnFromDelete(p, TRUE)
    /\ UNCHANGED <<stores, call, loc, pre, ncalls, nfail>>

\* joiner.delete_many(filters); return True
delete_many_Ok(p) ==
    /\ joinTable' = [joinTable EXCEPT ![call[p].c] =
                        SelectSeq(@, LAMBDA e : ~Matches(call[p].f, e.meta))]
    /\ log' = [log EXCEPT ![p] = Logged(p, "joindel", "ok")]
    /\ ReturnFromDelete(p, TRUE)
    /\ UNCHANGED <<vecIndex, qdrantCols, nextId, call, loc, pre, ncalls, nfail>>

\* mutant: delete_vecdb that logs the Join Table error and returns True
delete_many_Fail_Swallow(p) ==
    /\ CanFail
    /\ nfail' = nfail + 1
    /\ log' = [log EXCEPT ![p] = Logged(p, "joindel", "raise")]
    /\ ReturnFromDelete(p, TRUE)
    /\ UNCHANGED <<stores, call, loc, pre, ncalls>>

\* joiner.delete_many raises: delete_vecdb logs and re-raises
delete_many_Fail(p) == Raise(p, "joindel")

delete_many(p) ==
    /\ pc[p] = "joindel"
    /\ \/ delete_many_Ok(p)
       \/ delete_many_Fail(p)

\* ------------------------------------------------------------------ get_langchain_qdrant
\* embedding = get_langchain_embedding(): outside the try of get_langchain_qdrant
get_langchain_embedding(p) ==
    /\ pc[p] = "embed"
    /\ \/ /\ log' = [log EXCEPT ![p] = Logged(p, "embed", "ok")]
          /\ pc' = [pc EXCEPT ![p] = "exists"]
          /\ UNCHANGED <<stores, call, phase, loc, pre, ret, ncalls, nfail>>
       \/ Raise(p, "embed")

\* mutant: the answer of exists_collection is ignored and the creation always tried
exists_collection_Ignored(p) ==
    /\ pc[p] = "exists"
    /\ log' = [log EXCEPT ![p] = Logged(p, "exists", "ok")]
    /\ loc' = [loc EXCEPT ![p].exists = (call[p].c \in qdrantCols)]
    /\ pc' = [pc EXCEPT ![p] = "create"]
    /\ UNCHANGED <<stores, call, phase, pre, ret, ncalls, nfail>>

\* exists_collection: any exception of the client is turned into False
exists_collection_Fail(p) ==
    /\ CanFail
    /\ nfail' = nfail + 1
    /\ log' = [log EXCEPT ![p] = Logged(p, "exists", "raise")]
    /\ loc' = [loc EXCEPT ![p].exists = FALSE]
    /\ pc' = [pc EXCEPT ![p] = "create"]
    /\ UNCHANGED <<stores, call, phase, pre, ret, ncalls>>

exists_collection(p) ==
    /\ pc[p] = "exists"
    /\ \/ /\ log' = [log EXCEPT ![p] = Logged(p, "exists", "ok")]
          /\ loc' = [loc EXCEPT ![p].exists = (call[p].c \in qdrantCols)]
          /\ pc' = [pc EXCEPT ![p] =
                       IF call[p].c \in qdrantCols THEN "construct" ELSE "create"]
          /\ UNCHANGED <<stores, call, phase, pre, ret, ncalls, nfail>>
       \/ exists_collection_Fail(p)

\* mutant: get_langchain_qdrant that lets the error of create_collection through
create_collection_Fail_Raised(p) ==
    Throw(p, "create")

\* create_collection re-raises; get_langchain_qdrant catches it: except Exception: pass
create_collection_Fail(p) ==
    /\ log' = [log EXCEPT ![p] = Logged(p, "create", "raise")]
    /\ pc' = [pc EXCEPT ![p] = "construct"]
    /\ UNCHANGED <<stores, call, phase, loc, pre, ret, ncalls>>

\* create_collection(collection_name, embedding_size): Qdrant refuses to create
\* a collection that exists
create_collection(p) ==
    /\ pc[p] = "create"
    /\ \/ /\ call[p].c \notin qdrantCols
          /\ qdrantCols' = qdrantCols \cup {call[p].c}
          /\ log' = [log EXCEPT ![p] = Logged(p, "create", "ok")]
          /\ pc' = [pc EXCEPT ![p] = "construct"]
          /\ UNCHANGED <<vecIndex, joinTable, nextId, call, phase, loc, pre, ret,
                         ncalls, nfail>>
       \/ /\ call[p].c \in qdrantCols
          /\ UNCHANGED nfail
          /\ create_collection_Fail(p)
       \/ /\ CanFail
          /\ nfail' = nfail + 1
          /\ create_collection_Fail(p)

\* QdrantVectorStore(client=get_qdrant_client(), ...): outside the try; the
\* store validates the collection, which must exist
get_langchain_qdrant(p) ==
    /\ pc[p] = "construct"
    /\ \/ /\ call[p].c \in qdrantCols
          /\ log' = [log EXCEPT ![p] = Logged(p, "construct", "ok")]
          /\ pc' = [pc EXCEPT ![p] = IF phase[p] = "delete" THEN "vecdel" ELSE "add"]
          /\ UNCHANGED <<stores, call, phase, loc, pre, ret, ncalls, nfail>>
       \/ /\ call[p].c \notin qdrantCols
          /\ UNCHANGED nfail
          /\ Throw(p, "construct")
       \/ Raise(p, "construct")

\* ------------------------------------------------------------------ insert_vecdb
\* mutant: add_texts called without the metadatas
NewEntries_NoMeta(ids, t, m) ==
    {[id |-> ids[i], meta |-> {}, chunk |-> split_text(t)[i]] : i \in 1..Len(split_text(t))}

\* the Vector Entries of one add_texts call: chunk i gets ID ids[i] and metadata m
NewEntries(ids, t, m) ==
    {[id |-> ids[i], meta |-> m, chunk |-> split_text(t)[i]] : i \in 1..Len(split_text(t))}

\* result = vectorstore.add_texts(texts, [metadata for _ in texts])
add_texts_Ok(p) ==
    LET n == Len(split_text(call[p].t))
        ids == [i \in 1..n |-> nextId + i]
    IN  /\ vecIndex' = [vecIndex EXCEPT ![call[p].c] =
                            @ \cup NewEntries(ids, call[p].t, call[p].m)]
        /\ nextId' = nextId + n
        /\ loc' = [loc EXCEPT ![p].result = ids]
        /\ log' = [log EXCEPT ![p] = Logged(p, "add", "ok")]
        /\ pc' = [pc EXCEPT ![p] = "joinins"]
        /\ UNCHANGED <<qdrantCols, joinTable, call, phase, pre, ret, ncalls, nfail>>

\* with no chunk add_texts sends nothing to the store
add_texts(p) ==
    /\ pc[p] = "add"
    /\ \/ add_texts_Ok(p)
       \/ /\ call[p].t > 0
          /\ Raise(p, "add")

\* mutant: a Join Table write that reports success and stores nothing
insert_one_Ok_Dropped(p) ==
    /\ log' = [log EXCEPT ![p] = Logged(p, "joinins", "ok")]
    /\ ReturnFromInsert(p, loc[p].result)
    /\ UNCHANGED <<stores, call, loc, pre, ncalls, nfail>>

\* mutant: the Join Entry written as an upsert keyed on the metadata
insert_one_Ok_Upsert(p) ==
    /\ joinTable' = [joinTable EXCEPT ![call[p].c] =
                        Append(SelectSeq(@, LAMBDA e : e.meta # call[p].m),
                               [meta |-> call[p].m, qids |-> loc[p].result])]
    /\ log' = [log EXCEPT ![p] = Logged(p, "joinins", "ok")]
    /\ ReturnFromInsert(p, loc[p].result)
    /\ UNCHANGED <<vecIndex, qdrantCols, nextId, call, loc, pre, ncalls, nfail>>

\* mutant: the Join Entry written to one hard-coded Join Table collection
insert_one_Ok_FixedCollection(p) ==
    /\ joinTable' = [joinTable EXCEPT !["scholarships"] =
                        Append(@, [meta |-> call[p].m, qids |-> loc[p].result])]
    /\ log' = [log EXCEPT ![p] = Logged(p, "joinins", "ok")]
    /\ ReturnFromInsert(p, loc[p].result)
    /\ UNCHANGED <<vecIndex, qdrantCols, nextId, call, loc, pre, ncalls, nfail>>

\* joiner.insert_one({**metadata, "qids": result}); return result
insert_one_Ok(p) ==
    /\ joinTable' = [joinTable EXCEPT ![call[p].c] =
                        Append(@, [meta |-> call[p].m, qids |-> loc[p].result])]
    /\ log' = [log EXCEPT ![p] = Logged(p, "joinins", "ok")]
    /\ ReturnFromInsert(p, loc[p].result)
    /\ UNCHANGED <<vecIndex, qdrantCols, nextId, call, loc, pre, ncalls, nfail>>

\* mutant: insert_vecdb that removes the chunks it added before re-raising
insert_one_Fail_Cleanup(p) ==
    /\ CanFail
    /\ nfail' = nfail + 1
    /\ vecIndex' = [vecIndex EXCEPT ![call[p].c] =
                        {v \in @ : v.id \notin SeqToSet(loc[p].result)}]
    /\ log' = [log EXCEPT ![p] = Logged(p, "joinins", "raise")]
    /\ pc' = [pc EXCEPT ![p] = "idle"]
    /\ ret' = [ret EXCEPT ![p] = [status |-> "raise", value |-> <<>>, phase |-> phase[p]]]
    /\ UNCHANGED <<qdrantCols, joinTable, nextId, call, phase, loc, pre, ncalls>>

\* mutant: insert_vecdb that tries the Join Table write again after an error
insert_one_Fail_Retry(p) ==
    /\ CanFail
    /\ nfail' = nfail + 1
    /\ log' = [log EXCEPT ![p] = Logged(p, "joinins", "raise")]
    /\ UNCHANGED <<stores, pc, call, phase, loc, pre, ret, ncalls>>

\* get_mongodb_collection or insert_one raises: insert_vecdb logs and re-raises
insert_one_Fail(p) == Raise(p, "joinins")

insert_one(p) ==
    /\ pc[p] = "joinins"
    /\ \/ insert_one_Ok(p)
       \/ insert_one_Fail(p)

\* ------------------------------------------------------------------ specification
Step(p) ==
    \/ insert_vecdb(p) /\ UNCHANGED <<handlerVars, clientVars>>
    \/ delete_vecdb(p) /\ UNCHANGED <<handlerVars, clientVars>>
    \/ update_vecdb(p) /\ UNCHANGED <<handlerVars, clientVars>>
    \/ find(p) /\ UNCHANGED <<handlerVars, clientVars>>
    \/ get_langchain_embedding(p) /\ UNCHANGED <<handlerVars, clientVars>>
    \/ exists_collection(p) /\ UNCHANGED <<handlerVars, clientVars>>
    \/ create_collection(p) /\ UNCHANGED <<handlerVars, clientVars>>
    \/ get_langchain_qdrant(p) /\ UNCHANGED <<handlerVars, clientVars>>
    \/ vectorstore_delete(p) /\ UNCHANGED <<handlerVars, clientVars>>
    \/ delete_many(p) /\ UNCHANGED <<handlerVars, clientVars>>
    \/ add_texts(p) /\ UNCHANGED <<handlerVars, clientVars>>
    \/ insert_one(p) /\ UNCHANGED <<handlerVars, clientVars>>

\* The helper called by one request at a time.
Next == \E p \in SeqProcs : Step(p)

Spec == Init /\ [][Next]_vars

\* ------------------------------------------------------------------ sequential summaries
\* The stores after a failure-free delete_vecdb(c, f) started in stores s.
EffDelete(s, c, f) ==
    LET qids == FlattenQids(SelectSeq(s.join[c], LAMBDA e : Matches(f, e.meta))) IN
    IF Len(qids) > 0
    THEN [s EXCEPT !.vec[c] = {v \in @ : v.id \notin SeqToSet(qids)},
                   !.join[c] = SelectSeq(@, LAMBDA e : ~Matches(f, e.meta)),
                   !.cols = @ \cup {c}]
    ELSE s

\* The IDs a failure-free insert_vecdb(c, t, m) started in stores s returns.
EffInsertIds(s, t) == [i \in 1..t |-> s.nextId + i]

\* The stores after a failure-free insert_vecdb(c, t, m) started in stores s.
EffInsert(s, c, t, m) ==
    [s EXCEPT !.vec[c] = @ \cup {[id |-> s.nextId + i, meta |-> m, chunk |-> i] : i \in 1..t},
              !.join[c] = Append(@, [meta |-> m, qids |-> EffInsertIds(s, t)]),
              !.cols = @ \cup {c},
              !.nextId = @ + t]

\* ------------------------------------------------------------------ vocabulary of the claims
H == "h1"
Returned(op) == pc[H] = "idle" /\ call[H].op = op /\ ret[H].status # "none"
LogAllOk == \A i \in 1..Len(log[H]) : log[H][i][2] = "ok"
InLog(op, outcome) == \E i \in 1..Len(log[H]) : log[H][i] = <<op, outcome>>
Times(op) == Cardinality({i \in 1..Len(log[H]) : log[H][i][1] = op})
Entries(c) == SeqToSet(joinTable[c])
PreEntries(c) == SeqToSet(pre[H].join[c])
MatchingBefore == {e \in PreEntries(call[H].c) : Matches(call[H].f, e.meta)}
\* the IDs of the Vector Entries of collection c whose metadata matches meta
VecIdsMatching(c, meta) == {v.id : v \in {w \in vecIndex[c] : Matches(meta, w.meta)}}

\* ------------------------------------------------------------------ C1
\* C1 (as stated): once insert_vecdb(c, t, m) has completed, whatever number of
\* chunks t yields, a failure-free delete_vecdb(c, f) with f matching m leaves
\* none of the chunk IDs of the record's Join Entry in the Vector Index and
\* leaves that Join Entry out of the Join Table.
C1_DeleteRemovesEveryRecord ==
    (Returned("delete") /\ ret[H].status = "ok" /\ LogAllOk) =>
        \A e \in MatchingBefore :
            /\ SeqToSet(e.qids) \cap VecIds(call[H].c) = {}
            /\ e \notin Entries(call[H].c)

\* ------------------------------------------------------------------ C2
\* C2: a failure-free update_vecdb(c, f, t, m) leaves the Vector Index and the
\* Join Table as delete_vecdb(c, f) followed by insert_vecdb(c, t, m) leaves
\* them and returns the same chunk IDs (the summaries EffDelete and EffInsert
\* being what the two calls do on their own), and the new Join Entry's qids
\* share no ID with the qids of an entry that matched f before the update.
C2_UpdateIsDeleteThenInsert ==
    /\ (Returned("delete") /\ LogAllOk) =>
          /\ Snapshot = EffDelete(pre[H], call[H].c, call[H].f)
          /\ ret[H].value = (\E e \in MatchingBefore : e.qids # <<>>)
    /\ (Returned("insert") /\ LogAllOk) =>
          /\ Snapshot = EffInsert(pre[H], call[H].c, call[H].t, call[H].m)
          /\ ret[H].value = EffInsertIds(pre[H], call[H].t)
    /\ (Returned("update") /\ LogAllOk) =>
          LET mid == EffDelete(pre[H], call[H].c, call[H].f)
              je == joinTable[call[H].c]
          IN  /\ ret[H].status = "ok"
              /\ Snapshot = EffInsert(mid, call[H].c, call[H].t, call[H].m)
              /\ ret[H].value = EffInsertIds(mid, call[H].t)
              /\ je[Len(je)].qids = ret[H].value
              /\ \A e \in MatchingBefore :
                    SeqToSet(e.qids) \cap SeqToSet(je[Len(je)].qids) = {}

\* an update that replaced a record holding chunks by a text of two chunks
C2_Witness ==
    /\ Returned("update") /\ LogAllOk
    /\ \E e \in MatchingBefore : Len(e.qids) > 0
    /\ Len(ret[H].value) = 2

\* ------------------------------------------------------------------ C3
\* C3: when no Join Entry of collection c matches f as delete_vecdb(c, f)
\* starts, the call changes neither the Vector Index nor the Join Table at any
\* of its steps, performs the Join Table lookup and nothing else, and, the
\* lookup not failing, returns false without an exception.
C3_DeleteWithoutMatch ==
    (call[H].op = "delete" /\ MatchingBefore = {}) =>
        /\ Snapshot = pre[H]
        /\ \A i \in 1..Len(log[H]) : log[H][i][1] = "find"
        /\ (Returned("delete") /\ LogAllOk) =>
              /\ ret[H].status = "ok"
              /\ ret[H].value = FALSE
              /\ log[H] = <<(<<"find", "ok">>)>>

\* a delete that found other records in the collection, none matching
C3_Witness ==
    /\ Returned("delete") /\ LogAllOk
    /\ MatchingBefore = {}
    /\ pre[H].join[call[H].c] # <<>>
    /\ ret[H].value = FALSE

\* ------------------------------------------------------------------ C4
\* C4 (as stated): in every quiescent state of a failure-free sequential run,
\* the IDs in the qids of a Join Entry J are exactly the IDs of the Vector
\* Entries of the collection whose metadata matches J's metadata.
C4_QidsAreExactlyTheMatchingEntries ==
    (pc[H] = "idle" /\ nfail = 0) =>
        \A c \in Collections : \A J \in Entries(c) :
            SeqToSet(J.qids) = VecIdsMatching(c, J.meta)

\* C4 (amended): in every quiescent state of a failure-free sequential run,
\* the IDs in the qids of a Join Entry J are IDs of Vector Entries whose
\* metadata matches J's, and the Vector Entries whose metadata matches J's are
\* exactly those in the qids of the Join Entries that carry J's metadata.
C4_QidsCoverTheMatchingEntries ==
    (pc[H] = "idle" /\ nfail = 0) =>
        \A c \in Collections : \A J \in Entries(c) :
            /\ SeqToSet(J.qids) \subseteq VecIdsMatching(c, J.meta)
            /\ VecIdsMatching(c, J.meta) =
                  UNION {SeqToSet(K.qids) : K \in {L \in Entries(c) : L.meta = J.meta}}

\* two records with the same metadata, each holding chunks
C4_Witness ==
    /\ pc[H] = "idle" /\ nfail = 0
    /\ \E c \in Collections : \E J, K \in Entries(c) :
          J # K /\ J.meta = K.meta /\ J.qids # <<>> /\ K.qids # <<>>

\* ------------------------------------------------------------------ C5
\* C5: insert_vecdb is not idempotent: a failure-free insert_vecdb(c, t, m)
\* leaves every Join Entry that already carried m where it was, with all its
\* Vector Entries, and adds one more Join Entry for m with t new IDs, none of
\* them in the qids of an earlier entry.
C5_InsertIsNotIdempotent ==
    (Returned("insert") /\ LogAllOk) =>
        LET c == call[H].c
            m == call[H].m
            old == pre[H].join[c]
            new == joinTable[c]
        IN  /\ Len(new) = Len(old) + 1
            /\ \A i \in 1..Len(old) : new[i] = old[i]
            /\ new[Len(new)].meta = m
            /\ \A i \in 1..Len(old) :
                  SeqToSet(old[i].qids) \cap SeqToSet(new[Len(new)].qids) = {}
            /\ pre[H].vec[c] \subseteq vecIndex[c]
            /\ Cardinality(VecIdsMatching(c, m)) =
                  Cardinality({v.id : v \in {w \in pre[H].vec[c] : Matches(m, w.meta)}})
                  + call[H].t

\* the same insert_vecdb(c, t, m) made twice: two entries of two chunks each
C5_Witness ==
    /\ Returned("insert") /\ LogAllOk
    /\ call[H].t = 2
    /\ pre[H].join[call[H].c] = <<[meta |-> call[H].m, qids |-> <<1, 2>>]>>
    /\ joinTable[call[H].c] = <<[meta |-> call[H].m, qids |-> <<1, 2>>],
                                [meta |-> call[H].m, qids |-> <<3, 4>>]>>
    /\ Cardinality(vecIndex[call[H].c]) = 4

\* ------------------------------------------------------------------ C6
\* C6: a failure-free insert_vecdb(c, t, m) makes one add call, which puts the
\* N chunks of t into Vector Index c under N distinct new IDs, chunk i under
\* the i-th ID and each with metadata m; it appends the one Join Entry
\* {**m, qids: [id_1..id_N]} to Join Table c, touches no other collection,
\* and returns [id_1..id_N].
C6_InsertWritesChunksAndOneEntry ==
    (Returned("insert") /\ LogAllOk) =>
        LET c == call[H].c
            ids == ret[H].value
            n == Len(split_text(call[H].t))
        IN  /\ ret[H].status = "ok"
            /\ Len(ids) = n
            /\ \A i, j \in 1..n : ids[i] = ids[j] => i = j
            /\ \A d \in Collections : SeqToSet(ids) \cap {v.id : v \in pre[H].vec[d]} = {}
            /\ vecIndex[c] = pre[H].vec[c] \cup
                  {[id |-> ids[i], meta |-> call[H].m, chunk |-> i] : i \in 1..n}
            /\ joinTable[c] = Append(pre[H].join[c], [meta |-> call[H].m, qids |-> ids])
            /\ \A d \in Collections \ {c} :
                  vecIndex[d] = pre[H].vec[d] /\ joinTable[d] = pre[H].join[d]
            /\ Times("add") = 1
            /\ Times("joinins") = 1

\* an insert of a two-chunk text into a collection that already holds a record
C6_Witness ==
    /\ Returned("insert") /\ LogAllOk
    /\ Len(ret[H].value) = 2
    /\ pre[H].join[call[H].c] # <<>>

\* ------------------------------------------------------------------ C7
\* the Vector Entries the add call of the current insert step wrote, given
\* the number of IDs handed out before it
Added(first) ==
    {[id |-> first + i, meta |-> call[H].m, chunk |-> i] : i \in 1..call[H].t}

\* C7: when the Vector Index write of insert_vecdb(c, t, m) succeeds and the
\* Join Table write then raises, the call raises, the failed write is its last
\* store operation (no cleanup, no second attempt), the Join Table is as it
\* was, and the written Vector Entries are all in the index while no Join
\* Entry of any collection has one of their IDs in its qids.
C7_InsertJoinWriteFails ==
    (Returned("insert") /\ InLog("add", "ok") /\ InLog("joinins", "raise")) =>
        LET c == call[H].c
            new == Added(pre[H].nextId)
        IN  /\ ret[H].status = "raise"
            /\ log[H][Len(log[H])] = <<"joinins", "raise">>
            /\ Times("joinins") = 1 /\ Times("add") = 1 /\ Times("vecdel") = 0
            /\ joinTable = pre[H].join
            /\ vecIndex[c] = pre[H].vec[c] \cup new
            /\ \A d \in Collections : \A e \in Entries(d) :
                  SeqToSet(e.qids) \cap {v.id : v \in new} = {}

\* two chunks written, then the Join Table write failed
C7_Witness ==
    /\ Returned("insert") /\ InLog("add", "ok") /\ InLog("joinins", "raise")
    /\ call[H].t = 2
    /\ Cardinality(vecIndex[call[H].c] \ pre[H].vec[call[H].c]) = 2

\* ------------------------------------------------------------------ C8
\* C8: when the Vector Index delete of delete_vecdb(c, f) succeeds and the Join
\* Table delete then raises, the call raises, the Join Table is as it was, so
\* every Join Entry matching f survives unchanged, and none of the IDs in the
\* qids of a matching entry is in the Vector Index any more.
C8_DeleteJoinDeleteFails ==
    (Returned("delete") /\ InLog("vecdel", "ok") /\ InLog("joindel", "raise")) =>
        LET c == call[H].c
            gone == UNION {SeqToSet(e.qids) : e \in MatchingBefore}
        IN  /\ ret[H].status = "raise"
            /\ log[H][Len(log[H])] = <<"joindel", "raise">>
            /\ joinTable = pre[H].join
            /\ \A e \in MatchingBefore :
                  e \in Entries(c) /\ SeqToSet(e.qids) \cap VecIds(c) = {}
            /\ vecIndex[c] = {v \in pre[H].vec[c] : v.id \notin gone}

\* a record with chunks lost its Vector Entries and kept its Join Entry
C8_Witness ==
    /\ Returned("delete") /\ InLog("vecdel", "ok") /\ InLog("joindel", "raise")
    /\ \E e \in MatchingBefore :
          e.qids # <<>> /\ SeqToSet(e.qids) \subseteq {v.id : v \in pre[H].vec[call[H].c]}

\* ------------------------------------------------------------------ C9
UpdateInsertFailed ==
    Returned("update") /\ ret[H].status = "raise" /\ ret[H].phase = "insert"

\* C9 (as stated): when the delete step of update_vecdb(c, f, t, m) succeeds
\* and the insert step then fails, the Record is left with no Join Entry and
\* no Vector Entry.
C9_FailedUpdateLeavesNothing ==
    UpdateInsertFailed =>
        /\ \A e \in Entries(call[H].c) : ~Matches(call[H].f, e.meta)
        /\ \A v \in vecIndex[call[H].c] : ~Matches(call[H].f, v.meta)

\* the stores when update_vecdb's insert step has failed
C9_AfterFailedInsertStep ==
    UpdateInsertFailed =>
        LET c == call[H].c
            mid == EffDelete(pre[H], c, call[H].f)
            new == Added(mid.nextId)
        IN  /\ joinTable = mid.join
            /\ \A e \in Entries(c) : Matches(call[H].f, e.meta) => e.qids = <<>>
            /\ IF InLog("add", "ok")
               THEN /\ vecIndex = [mid.vec EXCEPT ![c] = @ \cup new]
                    /\ \A d \in Collections : \A e \in Entries(d) :
                          SeqToSet(e.qids) \cap {v.id : v \in new} = {}
               ELSE vecIndex = mid.vec

\* a Join Entry appears only with the return of a successful insert or update
C9_EntryOnlyBySuccessfulWrite ==
    \A c \in Collections :
        Len(joinTable'[c]) > Len(joinTable[c]) =>
            ret'[H].status = "ok" /\ call'[H].op \in {"insert", "update"}

\* C9 (amended): when the delete step of update_vecdb(c, f, t, m) succeeds and
\* the insert step then fails, the call raises and no Join Entry has been
\* created; the Join Entries that matched f are gone with their Vector
\* Entries, unless none of them recorded a chunk ID, in which case they all
\* remain; when the failure is the Join Table write, the chunks just written
\* remain in the Vector Index, in the qids of no Join Entry.  No Join Entry
\* appears afterwards except by a successful insert_vecdb or update_vecdb.
C9_FailedUpdateLeavesNoUsableEntry ==
    []C9_AfterFailedInsertStep /\ [][C9_EntryOnlyBySuccessfulWrite]_vars

\* a record with chunks was deleted, the new chunks were written, and the
\* Join Table write failed
C9_Witness ==
    /\ UpdateInsertFailed /\ InLog("joindel", "ok") /\ InLog("add", "ok")
    /\ call[H].t > 0
    /\ Matches(call[H].f, call[H].m)

\* ------------------------------------------------------------------ C10
\* C10 (as stated): every exception a store raises during insert_vecdb,
\* delete_vecdb or update_vecdb ends the call with that exception: it is the
\* last store operation of the call and the call raises.
C10_EveryStoreExceptionPropagates ==
    \A i \in 1..Len(log[H]) :
        log[H][i][2] = "raise" =>
            i = Len(log[H]) /\ pc[H] = "idle" /\ ret[H].status = "raise"

\* C10 (amended): every exception raised by the Join Table store, by the Vector
\* Index add or delete, by the embedding getter or by the construction of the
\* vector store ends the call with that exception: no store operation follows
\* it (no retry, no compensating write) and the call raises.  An exception of
\* the collection existence check or of create_collection is swallowed inside
\* get_langchain_qdrant, and the call goes on with the next operation, without
\* trying the failed one again.
C10_StoreExceptionsPropagateButCreation ==
    \A i \in 1..Len(log[H]) :
        log[H][i][2] = "raise" =>
            IF log[H][i][1] \in {"exists", "create"}
            THEN i < Len(log[H]) => log[H][i + 1][1] # log[H][i][1]
            ELSE i = Len(log[H]) /\ pc[H] = "idle" /\ ret[H].status = "raise"

\* a creation error was passed over and the construction error that followed
\* reached the caller
C10_Witness ==
    /\ pc[H] = "idle"
    /\ ret[H].status = "raise"
    /\ InLog("create", "raise")
    /\ log[H][Len(log[H])] = <<"construct", "raise">>

\* ------------------------------------------------------------------ concurrent callers
\* Two request handlers, each making one helper call on the same collection,
\* their store operations interleaved in every order and none of them failing.
RaceCollection == "scholarships"

\* the stores before any call
EmptyStores ==
    [vec |-> [c \in Collections |-> {}], cols |-> {},
     join |-> [c \in Collections |-> <<>>], nextId |-> 0]

\* the stores as they are before any call or as one earlier failure-free
\* insert_vecdb(RaceCollection, t, m) left them
IndexedStores ==
    {EmptyStores} \cup
    {EffInsert(EmptyStores, RaceCollection, t, m) : t \in Texts, m \in Metas}

InitRace ==
    /\ \E s \in IndexedStores :
          /\ vecIndex = s.vec
          /\ qdrantCols = s.cols
          /\ joinTable = s.join
          /\ nextId = s.nextId
    /\ pc = [p \in Procs |-> "idle"]
    /\ call = [p \in Procs |-> NoCall]
    /\ phase = [p \in Procs |-> "none"]
    /\ loc = [p \in Procs |-> NoLoc]
    /\ log = [p \in Procs |-> <<>>]
    /\ pre = [p \in Procs |-> Snapshot]
    /\ ret = [p \in Procs |-> NoRet]
    /\ ncalls = 0
    /\ nfail = MaxFail
    /\ InitHandlers
    /\ InitClients

\* a request handler makes one helper call
FirstCall(p) == call[p].op = "none"
OnRaceCollection(p) == call'[p].c = RaceCollection

StepRace(p) ==
    \/ FirstCall(p) /\ insert_vecdb(p) /\ OnRaceCollection(p)
          /\ UNCHANGED <<handlerVars, clientVars>>
    \/ FirstCall(p) /\ delete_vecdb(p) /\ OnRaceCollection(p)
          /\ UNCHANGED <<handlerVars, clientVars>>
    \/ FirstCall(p) /\ update_vecdb(p) /\ OnRaceCollection(p)
          /\ UNCHANGED <<handlerVars, clientVars>>
    \/ find(p) /\ UNCHANGED <<handlerVars, clientVars>>
    \/ get_langchain_embedding(p) /\ UNCHANGED <<handlerVars, clientVars>>
    \/ exists_collection(p) /\ UNCHANGED <<handlerVars, clientVars>>
    \/ create_collection(p) /\ UNCHANGED <<handlerVars, clientVars>>
    \/ get_langchain_qdrant(p) /\ UNCHANGED <<handlerVars, clientVars>>
    \/ vectorstore_delete(p) /\ UNCHANGED <<handlerVars, clientVars>>
    \/ delete_many(p) /\ UNCHANGED <<handlerVars, clientVars>>
    \/ add_texts(p) /\ UNCHANGED <<handlerVars, clientVars>>
    \/ insert_one(p) /\ UNCHANGED <<handlerVars, clientVars>>

NextRace == \E p \in Procs : StepRace(p)

SpecRace == InitRace /\ [][NextRace]_vars

\* ------------------------------------------------------------------ interleavings of two updates
\* a caller of update_vecdb(c, f, t, m) about to perform its first store operation
UpdateCaller(cl) ==
    [c |-> cl.c, f |-> cl.f, t |-> cl.t, m |-> cl.m,
     at |-> "find", qids |-> <<>>, result |-> <<>>]

\* the next store operation of caller u of update_vecdb, performed on stores s:
\* the stores and the caller after it (get_langchain_qdrant has created the
\* collection before the Vector Index is written)
StoreOp(s, u) ==
    CASE u.at = "find" ->
            LET qids == FlattenQids(SelectSeq(s.join[u.c], LAMBDA e : Matches(u.f, e.meta)))
            IN  <<s, [u EXCEPT !.qids = qids,
                               !.at = IF DeleteHasWork(qids) THEN "vecdel" ELSE "add"]>>
      [] u.at = "vecdel" ->
            <<[s EXCEPT !.vec[u.c] = {v \in @ : v.id \notin SeqToSet(u.qids)},
                        !.cols = @ \cup {u.c}],
              [u EXCEPT !.at = "joindel"]>>
      [] u.at = "joindel" ->
            <<[s EXCEPT !.join[u.c] = SelectSeq(@, LAMBDA e : ~Matches(u.f, e.meta))],
              [u EXCEPT !.at = "add"]>>
      [] u.at = "add" ->
            <<[s EXCEPT !.vec[u.c] = @ \cup NewEntries(EffInsertIds(s, u.t), u.t, u.m),
                        !.cols = @ \cup {u.c},
                        !.nextId = @ + u.t],
              [u EXCEPT !.result = EffInsertIds(s, u.t), !.at = "joinins"]>>
      [] u.at = "joinins" ->
            <<[s EXCEPT !.join[u.c] = Append(@, [meta |-> u.m, qids |-> u.result])],
              [u EXCEPT !.at = "done"]>>

RECURSIVE RaceFinals(_, _, _)
\* the stores that the interleavings of the remaining store operations of the
\* two callers a and b can end in, from stores s
RaceFinals(s, a, b) ==
    IF a.at = "done" /\ b.at = "done"
    THEN {s}
    ELSE (IF a.at # "done"
          THEN RaceFinals(StoreOp(s, a)[1], StoreOp(s, a)[2], b) ELSE {})
         \cup
         (IF b.at # "done"
          THEN RaceFinals(StoreOp(s, b)[1], a, StoreOp(s, b)[2]) ELSE {})

\* ------------------------------------------------------------------ C11
\* the Join Entries of collection c that filter f selects, in stores s
EntriesIn(s, c, f) == SelectSeq(s.join[c], LAMBDA e : Matches(f, e.meta))

\* both callers called update_vecdb for the same Record: same collection, same
\* non-empty filter, metadata that the filter selects
SameRecordUpdates ==
    /\ \A p \in Procs : call[p].op = "update" /\ Matches(call[p].f, call[p].m)
    /\ call["h1"].c = call["h2"].c
    /\ call["h1"].f = call["h2"].f
    /\ call["h1"].f # {}

\* the Record has a Join Entry, and its Join Entries record chunk IDs
RecordIndexed(s) ==
    LET es == EntriesIn(s, call["h1"].c, call["h1"].f)
    IN  Len(es) > 0 /\ \A i \in 1..Len(es) : es[i].qids # <<>>

\* both updates have started and neither has performed a store operation
RaceStart ==
    SameRecordUpdates /\ RecordIndexed(Snapshot)
    /\ \A p \in Procs : pc[p] = "find" /\ log[p] = <<>>

\* both updates have returned their chunk IDs
RaceDone ==
    SameRecordUpdates /\ \A p \in Procs : pc[p] = "idle" /\ ret[p].status = "ok"

\* the numbers of Join Entries for the Record that the two updates can end with
RaceCounts ==
    {Len(EntriesIn(s, call["h1"].c, call["h1"].f)) :
        s \in RaceFinals(Snapshot, UpdateCaller(call["h1"]), UpdateCaller(call["h2"]))}

\* C11 (as stated): when two update_vecdb calls for the same Record run
\* concurrently with their store operations interleaved, there is an
\* interleaving after which the Record has two Join Entries and there is one
\* after which it has none.
C11_TwoOrZeroEntriesCanRemain ==
    RaceStart => 2 \in RaceCounts /\ 0 \in RaceCounts

\* C11 (amended): when two update_vecdb calls for the same Record run
\* concurrently with their store operations interleaved, the final state
\* after both complete can hold two Join Entries for the Record (duplicate),
\* but it cannot hold zero: the Join Entry of the update whose join insert
\* came last is in the Join Table, with all its Vector Entries in the index.
C11_TwoEntriesCanRemainNeverZero ==
    /\ RaceStart => 2 \in RaceCounts /\ 0 \notin RaceCounts
    /\ RaceDone =>
          LET c == call["h1"].c
              je == joinTable[c]
          IN  /\ Len(EntriesIn(Snapshot, c, call["h1"].f)) >= 1
              /\ \E p \in Procs :
                    /\ je[Len(je)] = [meta |-> call[p].m, qids |-> ret[p].value]
                    /\ SeqToSet(ret[p].value) \subseteq VecIds(c)
              /\ \E p \in Procs :
                    Snapshot \in RaceFinals(pre[p], UpdateCaller(call["h1"]),
                                            UpdateCaller(call["h2"]))

\* two updates of an indexed Record, each with a text that has chunks, ended
\* with two Join Entries for the Record
C11_Witness ==
    /\ RaceDone
    /\ RecordIndexed(pre["h1"]) /\ RecordIndexed(pre["h2"])
    /\ \A p \in Procs : call[p].t > 0
    /\ Len(EntriesIn(Snapshot, call["h1"].c, call["h1"].f)) = 2

\* ------------------------------------------------------------------ calls on an indexed Record
\* One request handler calling the helper on a collection that holds one
\* Record, indexed by an earlier failure-free insert_vecdb of a text with
\* chunks; store operations may raise.
RecordStores ==
    {EffInsert(EmptyStores, RaceCollection, t, MetaA) : t \in 1..MaxChunks}

InitIndexed ==
    /\ \E s \in RecordStores :
          /\ vecIndex = s.vec
          /\ qdrantCols = s.cols
          /\ joinTable = s.join
          /\ nextId = s.nextId
    /\ pc = [p \in Procs |-> "idle"]
    /\ call = [p \in Procs |-> NoCall]
    /\ phase = [p \in Procs |-> "none"]
    /\ loc = [p \in Procs |-> NoLoc]
    /\ log = [p \in Procs |-> <<>>]
    /\ pre = [p \in Procs |-> Snapshot]
    /\ ret = [p \in Procs |-> NoRet]
    /\ ncalls = 0
    /\ nfail = 0
    /\ InitHandlers
    /\ InitClients

StepIndexed(p) ==
    \/ insert_vecdb(p) /\ OnRaceCollection(p)
          /\ UNCHANGED <<handlerVars, clientVars>>
    \/ delete_vecdb(p) /\ OnRaceCollection(p)
          /\ UNCHANGED <<handlerVars, clientVars>>
    \/ update_vecdb(p) /\ OnRaceCollection(p)
          /\ UNCHANGED <<handlerVars, clientVars>>
    \/ find(p) /\ UNCHANGED <<handlerVars, clientVars>>
    \/ get_langchain_embedding(p) /\ UNCHANGED <<handlerVars, clientVars>>
    \/ exists_collection(p) /\ UNCHANGED <<handlerVars, clientVars>>
    \/ create_collection(p) /\ UNCHANGED <<handlerVars, clientVars>>
    \/ get_langchain_qdrant(p) /\ UNCHANGED <<handlerVars, clientVars>>
    \/ vectorstore_delete(p) /\ UNCHANGED <<handlerVars, clientVars>>
    \/ delete_many(p) /\ UNCHANGED <<handlerVars, clientVars>>
    \/ add_texts(p) /\ UNCHANGED <<handlerVars, clientVars>>
    \/ insert_one(p) /\ UNCHANGED <<handlerVars, clientVars>>

NextIndexed == \E p \in SeqProcs : StepIndexed(p)

SpecIndexed == InitIndexed /\ [][NextIndexed]_vars

\* ------------------------------------------------------------------ C12
\* orphans: the Vector Entries of collection c, in stores s, whose ID is in
\* the qids of no Join Entry
OrphansIn(s, c) ==
    {v \in s.vec[c] : \A d \in Collections : \A e \in SeqToSet(s.join[d]) :
                         v.id \notin SeqToSet(e.qids)}

\* dangling: the Join Entries of collection c, in stores s, whose qids name a
\* Vector Entry that is not in the index
DanglingIn(s, c) ==
    {e \in SeqToSet(s.join[c]) : ~(SeqToSet(e.qids) \subseteq {v.id : v \in s.vec[c]})}

\* the call in progress or just completed is a delete_vecdb or update_vecdb on
\* collection c whose filters select Join Entry e and whose join delete succeeded
JoinDeleteDone(c, e) ==
    /\ call[H].op \in {"delete", "update"}
    /\ call[H].c = c
    /\ Matches(call[H].f, e.meta)
    /\ InLog("joindel", "ok")

\* C12 (as stated): a Vector Entry that was an orphan, or a Join Entry that
\* was dangling, when an insert_vecdb, delete_vecdb or update_vecdb call
\* started is an orphan, or dangling, in every state during and after that
\* call: no call repairs it.
C12_InconsistencyPersists ==
    \A c \in Collections :
        /\ OrphansIn(pre[H], c) \subseteq OrphansIn(Snapshot, c)
        /\ DanglingIn(pre[H], c) \subseteq DanglingIn(Snapshot, c)

\* C12 (amended): a Vector Entry that was an orphan when an insert_vecdb,
\* delete_vecdb or update_vecdb call started is an orphan in every state
\* during and after that call.  A Join Entry that was dangling when the call
\* started is dangling in every such state too, unless the call is a
\* delete_vecdb or update_vecdb whose filters select the entry: the join
\* delete of that call removes the entry from the Join Table, which ends the
\* inconsistency, and the call returns as any other.
C12_OrphansPersistDanglingUntilDeleted ==
    \A c \in Collections :
        /\ OrphansIn(pre[H], c) \subseteq OrphansIn(Snapshot, c)
        /\ \A e \in DanglingIn(pre[H], c) :
              \/ e \in DanglingIn(Snapshot, c)
              \/ JoinDeleteDone(c, e) /\ e \notin Entries(c)

\* a delete_vecdb that found a dangling Join Entry and removed it
C12_Witness ==
    /\ Returned("delete") /\ LogAllOk
    /\ ret[H].value = TRUE
    /\ \E e \in DanglingIn(pre[H], call[H].c) :
          Matches(call[H].f, e.meta) /\ e \notin Entries(call[H].c)

\* ------------------------------------------------------------------ CRUD handlers
\* The POST, PUT and DELETE handlers of the CRUD routers over the document
\* store, served one at a time and without a store failure.  A helper call a
\* handler makes is taken as one step (EffInsert, EffDelete: what the
\* failure-free calls do, by C2).

\* the entity types whose handlers call the helper
IndexedTypes ==
    {"scholarships", "scholarship_providers", "universities", "university_faculties",
     "university_departments", "university_campuses"}

\* A Record is the set of its <<field, value>> items: the identifying fields
\* id and ref, and the remaining fields (body), whose formatted dump is a text
\* of that many chunks.
Records == {m \cup {<<"body", b>>} : m \in Metas, b \in 1..MaxChunks}
RequestFilters == {{}, {<<"id", 1>>}, {<<"id", 2>>}, {<<"ref", 1>>}, {<<"body", 1>>}}
Payloads == {{<<"body", b>>} : b \in 1..MaxChunks} \cup {{<<"id", 2>>}}

\* metadata = {"scholarship_id": ..., "provider_id": ..., ...}: the identifying fields
metadata(doc) == {kv \in doc : kv[1] \in {"id", "ref"}}
\* pprint.pformat of the remaining fields, as the number of chunks it splits into
pformat(doc) == (CHOOSE kv \in doc : kv[1] = "body")[2]
\* {"scholarship_id": id}: the filter update_vecdb is called with
primary(doc) == {kv \in doc : kv[1] = "id"}

\* the first document that matches the filters, 0 if there is none
FirstMatch(ds, f) ==
    IF \E i \in 1..Len(ds) : Matches(f, ds[i])
    THEN CHOOSE i \in 1..Len(ds) :
            Matches(f, ds[i]) /\ \A j \in 1..(i - 1) : ~Matches(f, ds[j])
    ELSE 0

\* {"$set": document}
SetFields(doc, data) == {kv \in doc : \A d \in data : d[1] # kv[1]} \cup data

\* update(collection, filters, data): collection.update_one
update(ds, f, data) ==
    LET i == FirstMatch(ds, f) IN
    IF i = 0
    THEN [docs |-> ds, matched |-> 0, modified |-> 0]
    ELSE [docs |-> [ds EXCEPT ![i] = SetFields(@, data)],
          matched |-> 1,
          modified |-> IF SetFields(ds[i], data) = ds[i] THEN 0 ELSE 1]

\* delete(collection, filters): collection.delete_one
delete(ds, f) ==
    LET i == FirstMatch(ds, f) IN
    IF i = 0
    THEN [docs |-> ds, deleted |-> 0]
    ELSE [docs |-> SubSeq(ds, 1, i - 1) \o SubSeq(ds, i + 1, Len(ds)), deleted |-> 1]

\* get_many(collection, filters): collection.find, without offset and limit
get_many(ds, f) == SelectSeq(ds, LAMBDA d : Matches(f, d))

RECURSIVE Reindex(_, _, _)
\* for doc in updated_docs: update_vecdb(collection, {id}, pformat(doc), metadata)
Reindex(s, e, ds) ==
    IF ds = <<>>
    THEN s
    ELSE LET doc == Head(ds) IN
         Reindex(EffInsert(EffDelete(s, e, primary(doc)), e, pformat(doc), metadata(doc)),
                 e, Tail(ds))

InitCrud ==
    /\ vecIndex = [e \in EntityTypes |-> {}]
    /\ qdrantCols = {}
    /\ joinTable = [e \in EntityTypes |-> <<>>]
    /\ nextId = 0
    /\ pc = [p \in Procs |-> "idle"]
    /\ call = [p \in Procs |-> NoCall]
    /\ phase = [p \in Procs |-> "none"]
    /\ loc = [p \in Procs |-> NoLoc]
    /\ log = [p \in Procs |-> <<>>]
    /\ pre = [p \in Procs |-> Snapshot]
    /\ ret = [p \in Procs |-> NoRet]
    /\ ncalls = 0
    /\ nfail = 0
    /\ InitHandlers
    /\ InitClients

\* a handler of entity type e serves a request and returns its response; the
\* requests of one behaviour address one entity type
Serve(e, op, f, data, ds, s, response) ==
    /\ ncalls < MaxRequests
    /\ req.op = "none" \/ req.entity = e
    /\ ncalls' = ncalls + 1
    /\ documents' = [documents EXCEPT ![e] = ds]
    /\ vecIndex' = s.vec
    /\ qdrantCols' = s.cols
    /\ joinTable' = s.join
    /\ nextId' = s.nextId
    /\ req' = [op |-> op, entity |-> e, f |-> f, data |-> data,
               docs |-> documents[e], stores |-> Snapshot]
    /\ resp' = response
    /\ UNCHANGED <<helperVars, nfail, clientVars>>

\* POST of an indexed entity type: insert, then insert_vecdb
create_scholarship(e) ==
    \E data \in Records :
        Serve(e, "POST", {}, data, Append(documents[e], data),
              EffInsert(Snapshot, e, pformat(data), metadata(data)),
              [NoResp EXCEPT !.success = TRUE])

\* the stores insert_vecdb(c, t, m) can leave behind when it raises: nothing
\* written, the collection created, or the chunks written and no Join Entry
FailedInsert(s, c, t, m) ==
    {s,
     [s EXCEPT !.cols = @ \cup {c}],
     [EffInsert(s, c, t, m) EXCEPT !.join = s.join]}

\* the response of the except clause of a handler: HTTPException, status 500
ServerError == [NoResp EXCEPT !.success = FALSE]

\* mutant: a create handler that deletes the Record again when insert_vecdb raises
create_scholarship_Fail_Compensated(e) ==
    \E data \in Records :
        \E s \in FailedInsert(Snapshot, e, pformat(data), metadata(data)) :
            /\ CanFail
            /\ ncalls < MaxRequests
            /\ req.op = "none" \/ req.entity = e
            /\ ncalls' = ncalls + 1
            /\ nfail' = nfail + 1
            /\ documents' = documents
            /\ vecIndex' = s.vec
            /\ qdrantCols' = s.cols
            /\ joinTable' = s.join
            /\ nextId' = s.nextId
            /\ req' = [op |-> "POST", entity |-> e, f |-> {}, data |-> data,
                       docs |-> documents[e], stores |-> Snapshot]
            /\ resp' = ServerError
            /\ UNCHANGED <<helperVars, clientVars>>

\* POST of an indexed entity type when insert_vecdb raises after the insert:
\* except Exception as e: raise HTTPException(status_code=500)
create_scholarship_Fail(e) ==
    \E data \in Records :
        \E s \in FailedInsert(Snapshot, e, pformat(data), metadata(data)) :
            /\ CanFail
            /\ ncalls < MaxRequests
            /\ req.op = "none" \/ req.entity = e
            /\ ncalls' = ncalls + 1
            /\ nfail' = nfail + 1
            /\ documents' = [documents EXCEPT ![e] = Append(@, data)]
            /\ vecIndex' = s.vec
            /\ qdrantCols' = s.cols
            /\ joinTable' = s.join
            /\ nextId' = s.nextId
            /\ req' = [op |-> "POST", entity |-> e, f |-> {}, data |-> data,
                       docs |-> documents[e], stores |-> Snapshot]
            /\ resp' = ServerError
            /\ UNCHANGED <<helperVars, clientVars>>

\* POST of programs, people and research labs: insert only
create_program(e) ==
    \E data \in Records :
        Serve(e, "POST", {}, data, Append(documents[e], data), Snapshot,
              [NoResp EXCEPT !.success = TRUE])

\* PUT of an indexed entity type: update, then, when a document was modified,
\* update_vecdb for every document get_many(filters) returns
update_scholarships(e) ==
    \E f \in RequestFilters, data \in Payloads :
        LET result == update(documents[e], f, data) IN
        Serve(e, "PUT", f, data, result.docs,
              IF result.modified > 0
              THEN Reindex(Snapshot, e, get_many(result.docs, f))
              ELSE Snapshot,
              [NoResp EXCEPT !.success = TRUE, !.matched = result.matched,
                             !.modified = result.modified])

\* PUT of programs, people and research labs: update only
update_programs_bulk(e) ==
    \E f \in RequestFilters, data \in Payloads :
        LET result == update(documents[e], f, data) IN
        Serve(e, "PUT", f, data, result.docs, Snapshot,
              [NoResp EXCEPT !.success = TRUE, !.matched = result.matched,
                             !.modified = result.modified])

\* DELETE of an indexed entity type: delete, then, when a document was
\* deleted, delete_vecdb with the filters of the request
delete_scholarships(e) ==
    \E f \in RequestFilters :
        LET result == delete(documents[e], f) IN
        Serve(e, "DELETE", f, {}, result.docs,
              IF result.deleted > 0 THEN EffDelete(Snapshot, e, f) ELSE Snapshot,
              [NoResp EXCEPT !.success = TRUE, !.deleted = result.deleted])

\* DELETE of programs, people and research labs: delete only
delete_programs_bulk(e) ==
    \E f \in RequestFilters :
        LET result == delete(documents[e], f) IN
        Serve(e, "DELETE", f, {}, result.docs, Snapshot,
              [NoResp EXCEPT !.success = TRUE, !.deleted = result.deleted])

NextCrud ==
    \/ \E e \in IndexedTypes : create_scholarship(e)
    \/ \E e \in IndexedTypes : update_scholarships(e)
    \/ \E e \in IndexedTypes : delete_scholarships(e)
    \/ \E e \in EntityTypes \ IndexedTypes : create_program(e)
    \/ \E e \in EntityTypes \ IndexedTypes : update_programs_bulk(e)
    \/ \E e \in EntityTypes \ IndexedTypes : delete_programs_bulk(e)

SpecCrud == InitCrud /\ [][NextCrud]_vars

\* ------------------------------------------------------------------ vocabulary of the handler claims
\* the Records of entity type e that carry metadata m, and its Join Entries that do
RecordsWith(e, m) == {i \in 1..Len(documents[e]) : metadata(documents[e][i]) = m}
EntriesWith(e, m) == {i \in 1..Len(joinTable[e]) : joinTable[e][i].meta = m}
MetasOf(e) ==
    {metadata(documents[e][i]) : i \in 1..Len(documents[e])}
        \cup {joinTable[e][i].meta : i \in 1..Len(joinTable[e])}

Served(op) == req.op = op /\ resp.success
\* the Records the filters of the request selected, by their place in the store
Selected == {i \in 1..Len(req.docs) : Matches(req.f, req.docs[i])}
\* the Record update_one modified or delete_one deleted, as the request found it
Target == req.docs[FirstMatch(req.docs, req.f)]
\* the Join Entries that carried metadata m when the request arrived
EntriesBefore(m) == {x \in SeqToSet(req.stores.join[req.entity]) : x.meta = m}

\* ------------------------------------------------------------------ C13
\* C13 (as stated): after any failure-free sequence of POST, PUT and DELETE
\* handler calls on an indexed entity type, the Join Table holds one Join
\* Entry for each Record in the document store and none for a Record that is
\* not there: for every metadata, as many Join Entries as Records.
C13_OneJoinEntryPerRecord ==
    \A e \in IndexedTypes : \A m \in MetasOf(e) :
        Cardinality(EntriesWith(e, m)) = Cardinality(RecordsWith(e, m))

\* ------------------------------------------------------------------ C14
\* C14 (as stated): after a PUT handler call on an indexed entity type that
\* returned success and modified a Record, the Join Entries the Record had
\* are gone, with their Vector Entries, and there is exactly one Join Entry
\* with the updated Record's metadata, its qids naming as many Vector Entries
\* as the updated contents have chunks.
C14_PutReplacesTheJoinEntry ==
    (Served("PUT") /\ req.entity \in IndexedTypes /\ resp.modified > 0) =>
        LET e == req.entity
            new == documents[e][FirstMatch(req.docs, req.f)]
        IN  /\ \A x \in EntriesBefore(metadata(Target)) :
                  x \notin Entries(e) /\ SeqToSet(x.qids) \cap VecIds(e) = {}
            /\ Cardinality(EntriesWith(e, metadata(new))) = 1
            /\ \A i \in EntriesWith(e, metadata(new)) :
                  /\ Len(joinTable[e][i].qids) = pformat(new)
                  /\ SeqToSet(joinTable[e][i].qids) \subseteq VecIdsMatching(e, metadata(new))

\* ------------------------------------------------------------------ C15
\* C15 (as stated): after a DELETE handler call on an indexed entity type
\* that returned success and deleted a Record, whatever the filters, no Join
\* Entry with the Record's metadata remains and none of the chunk IDs such an
\* entry recorded is in the Vector Index.
C15_DeleteRemovesTheJoinEntry ==
    (Served("DELETE") /\ req.entity \in IndexedTypes /\ resp.deleted > 0) =>
        /\ EntriesWith(req.entity, metadata(Target)) = {}
        /\ \A x \in EntriesBefore(metadata(Target)) :
              SeqToSet(x.qids) \cap VecIds(req.entity) = {}

\* ------------------------------------------------------------------ C16
\* C16 (as stated): a PUT whose filters select k >= 1 Records sets the fields
\* of the payload in all k of them, the modified count being the number of
\* those the payload changed; a DELETE whose filters select k >= 1 Records
\* removes all k, the deleted count being k.
C16_PutAndDeleteAreBulk ==
    /\ Served("PUT") =>
          /\ Len(documents[req.entity]) = Len(req.docs)
          /\ \A i \in Selected : documents[req.entity][i] = SetFields(req.docs[i], req.data)
          /\ resp.modified =
                Cardinality({i \in Selected : SetFields(req.docs[i], req.data) # req.docs[i]})
    /\ Served("DELETE") =>
          /\ documents[req.entity] = SelectSeq(req.docs, LAMBDA d : ~Matches(req.f, d))
          /\ resp.deleted = Cardinality(Selected)

\* ------------------------------------------------------------------ C17
\* C17 (as stated): for each of the nine entity types, a successful POST
\* handler call is followed by one helper insert: the Join Table of the entity
\* type has one more Join Entry, the last, with the new Record's metadata.
C17_CreateIndexesTheRecord ==
    Served("POST") =>
        LET e == req.entity
            je == joinTable[e]
        IN  /\ Len(je) = Len(req.stores.join[e]) + 1
            /\ je[Len(je)].meta = metadata(req.data)

\* ====================================================================
\* Client getters: get_mongodb_client, get_qdrant_client,
\* get_langchain_embedding, get_langchain_llm. Each keeps one module-level
\* handle; a client is named by its construction number (the first client
\* constructed for a service is 1) and 0 stands for None.
\* ====================================================================
\* the getters that probe the connection on every call
Probed == {"mongodb", "qdrant"}
\* the services with a close function
Closable == {"mongodb", "qdrant"}

\* the callers between the `is None` test and the assignment of _client
Constructing(g) ==
    {p \in Procs : getter[p].g = g /\ getter[p].at \in {"construct", "assign"}}
Running(g) == {p \in Procs : getter[p].g = g /\ getter[p].at # "idle"}
LastOutcome(g) ==
    IF outcomes[g] = <<>> THEN "none" ELSE outcomes[g][Len(outcomes[g])]

AfterHandle(g) == IF g \in Probed THEN "probe" ELSE "return"

\* a caller enters the getter of service g
get_client(p, g) ==
    /\ ncalls < MaxGets
    /\ getter[p].at = "idle"
    /\ getter' = [getter EXCEPT ![p] =
           [g |-> g, at |-> "check", inst |-> 0, out |-> "none", value |-> 0,
            prior |-> LastOutcome(g),
            settled |-> IF Constructing(g) = {} THEN handle[g] ELSE 0,
            fault |-> FALSE]]
    /\ ncalls' = ncalls + 1
    /\ UNCHANGED <<handle, made, outcomes, nfail>>

\* a getter that constructs whatever the handle holds
client_is_None_Always(p) ==
    /\ getter[p].at = "check"
    /\ getter' = [getter EXCEPT ![p].at = "construct"]
    /\ UNCHANGED <<handle, made, outcomes, ncalls, nfail>>

\* if _client is None:
client_is_None(p) ==
    /\ getter[p].at = "check"
    /\ getter' = [getter EXCEPT ![p].at =
           IF handle[getter[p].g] = 0 THEN "construct" ELSE AfterHandle(getter[p].g)]
    /\ UNCHANGED <<handle, made, outcomes, ncalls, nfail>>

\* MongoClient(...), QdrantClient(...), init_embeddings(...), init_chat_model(...)
construct_Ok(p) ==
    /\ getter[p].at = "construct"
    /\ made' = [made EXCEPT ![getter[p].g] = @ + 1]
    /\ getter' = [getter EXCEPT ![p].at = "assign", ![p].inst = made'[getter[p].g]]
    /\ UNCHANGED <<handle, outcomes, ncalls, nfail>>

\* the constructor raises
construct_Fail(p) ==
    /\ getter[p].at = "construct"
    /\ CanFail
    /\ nfail' = nfail + 1
    /\ getter' = [getter EXCEPT ![p].at = "except", ![p].fault = TRUE]
    /\ UNCHANGED <<handle, made, outcomes, ncalls>>

\* an assignment that never reaches the module-level handle
assign_client_Lost(p) ==
    /\ getter[p].at = "assign"
    /\ getter' = [getter EXCEPT ![p].at = AfterHandle(getter[p].g)]
    /\ UNCHANGED <<handle, made, outcomes, ncalls, nfail>>

\* _client = <the client constructed>
assign_client(p) ==
    /\ getter[p].at = "assign"
    /\ handle' = [handle EXCEPT ![getter[p].g] = getter[p].inst]
    /\ getter' = [getter EXCEPT ![p].at = AfterHandle(getter[p].g)]
    /\ UNCHANGED <<made, outcomes, ncalls, nfail>>

\* _client.admin.command('ping') / _client.get_collections(): the probe reads
\* the module-level handle; on None the attribute access raises
probe_Ok(p) ==
    /\ getter[p].at = "probe"
    /\ getter' = [getter EXCEPT ![p].at =
           IF handle[getter[p].g] = 0 THEN "except" ELSE "return"]
    /\ UNCHANGED <<handle, made, outcomes, ncalls, nfail>>

\* the probe raises
probe_Fail(p) ==
    /\ getter[p].at = "probe"
    /\ handle[getter[p].g] # 0
    /\ CanFail
    /\ nfail' = nfail + 1
    /\ getter' = [getter EXCEPT ![p].at = "except", ![p].fault = TRUE]
    /\ UNCHANGED <<handle, made, outcomes, ncalls>>

\* return _client: the value is the handle as it is now
return_client(p) ==
    /\ getter[p].at = "return"
    /\ getter' = [getter EXCEPT ![p].at = "idle", ![p].out = "returned",
                                ![p].value = handle[getter[p].g]]
    /\ outcomes' = [outcomes EXCEPT ![getter[p].g] = Append(@, "returned")]
    /\ UNCHANGED <<handle, made, ncalls, nfail>>

\* an except clause that logs and returns the handle
except_client_Swallowed(p) ==
    /\ getter[p].at = "except"
    /\ getter' = [getter EXCEPT ![p].at = "idle", ![p].out = "returned",
                                ![p].value = handle[getter[p].g]]
    /\ outcomes' = [outcomes EXCEPT ![getter[p].g] = Append(@, "returned")]
    /\ UNCHANGED <<handle, made, ncalls, nfail>>

\* except ...: _client = None; raise
except_client(p) ==
    /\ getter[p].at = "except"
    /\ handle' = [handle EXCEPT ![getter[p].g] = 0]
    /\ getter' = [getter EXCEPT ![p].at = "idle", ![p].out = "raised"]
    /\ outcomes' = [outcomes EXCEPT ![getter[p].g] = Append(@, "raised")]
    /\ UNCHANGED <<made, ncalls, nfail>>

\* a close that leaves the module-level handle as it is
close_connection_Kept(g) ==
    /\ ncalls < MaxGets
    /\ Running(g) = {}
    /\ ncalls' = ncalls + 1
    /\ outcomes' = [outcomes EXCEPT ![g] =
           IF handle[g] # 0 THEN Append(@, "closed") ELSE @]
    /\ UNCHANGED <<handle, made, getter, nfail>>

\* close_mongodb_connection / close_qdrant_connection: if _client: _client = None
close_connection(g) ==
    /\ ncalls < MaxGets
    /\ Running(g) = {}
    /\ ncalls' = ncalls + 1
    /\ handle' = [handle EXCEPT ![g] = 0]
    /\ outcomes' = [outcomes EXCEPT ![g] =
           IF handle[g] # 0 THEN Append(@, "closed") ELSE @]
    /\ UNCHANGED <<made, getter, nfail>>

\* ------------------------------------------------------------------
\* Sequential calls: one caller, constructors and probes may raise, the
\* connection may be closed between calls.
InitGetters ==
    /\ vecIndex = [c \in Collections |-> {}]
    /\ qdrantCols = {}
    /\ joinTable = [c \in Collections |-> <<>>]
    /\ nextId = 0
    /\ pc = [p \in Procs |-> "idle"]
    /\ call = [p \in Procs |-> NoCall]
    /\ phase = [p \in Procs |-> "none"]
    /\ loc = [p \in Procs |-> NoLoc]
    /\ log = [p \in Procs |-> <<>>]
    /\ pre = [p \in Procs |-> Snapshot]
    /\ ret = [p \in Procs |-> NoRet]
    /\ ncalls = 0
    /\ InitHandlers
    /\ InitClients
    /\ nfail = 0

StepGetter(p) ==
    \/ \E g \in Getters : get_client(p, g) /\ UNCHANGED <<stores, helperVars, handlerVars, manage>>
    \/ client_is_None(p) /\ UNCHANGED <<stores, helperVars, handlerVars, manage>>
    \/ construct_Ok(p) /\ UNCHANGED <<stores, helperVars, handlerVars, manage>>
    \/ construct_Fail(p) /\ UNCHANGED <<stores, helperVars, handlerVars, manage>>
    \/ assign_client(p) /\ UNCHANGED <<stores, helperVars, handlerVars, manage>>
    \/ probe_Ok(p) /\ UNCHANGED <<stores, helperVars, handlerVars, manage>>
    \/ probe_Fail(p) /\ UNCHANGED <<stores, helperVars, handlerVars, manage>>
    \/ return_client(p) /\ UNCHANGED <<stores, helperVars, handlerVars, manage>>
    \/ except_client(p) /\ UNCHANGED <<stores, helperVars, handlerVars, manage>>

Close ==
    \E g \in Closable : close_connection(g) /\ UNCHANGED <<stores, helperVars, handlerVars, manage>>

NextGetters ==
    \/ \E p \in SeqProcs : StepGetter(p)
    \/ Close

SpecGetters == InitGetters /\ [][NextGetters]_vars

\* ------------------------------------------------------------------
\* Racing calls: two callers run the getters step by step, in any
\* interleaving; nothing raises and nothing is closed.
InitGettersRace ==
    /\ vecIndex = [c \in Collections |-> {}]
    /\ qdrantCols = {}
    /\ joinTable = [c \in Collections |-> <<>>]
    /\ nextId = 0
    /\ pc = [p \in Procs |-> "idle"]
    /\ call = [p \in Procs |-> NoCall]
    /\ phase = [p \in Procs |-> "none"]
    /\ loc = [p \in Procs |-> NoLoc]
    /\ log = [p \in Procs |-> <<>>]
    /\ pre = [p \in Procs |-> Snapshot]
    /\ ret = [p \in Procs |-> NoRet]
    /\ ncalls = 0
    /\ InitHandlers
    /\ InitClients
    /\ nfail = MaxFail

StepGetterRace(p) ==
    \/ \E g \in Getters : get_client(p, g) /\ UNCHANGED <<stores, helperVars, handlerVars, manage>>
    \/ client_is_None(p) /\ UNCHANGED <<stores, helperVars, handlerVars, manage>>
    \/ construct_Ok(p) /\ UNCHANGED <<stores, helperVars, handlerVars, manage>>
    \/ assign_client(p) /\ UNCHANGED <<stores, helperVars, handlerVars, manage>>
    \/ probe_Ok(p) /\ UNCHANGED <<stores, helperVars, handlerVars, manage>>
    \/ return_client(p) /\ UNCHANGED <<stores, helperVars, handlerVars, manage>>

NextGettersRace == \E p \in Procs : StepGetterRace(p)

SpecGettersRace == InitGettersRace /\ [][NextGettersRace]_vars

\* ------------------------------------------------------------------
\* Vocabulary of the client claims
\* the calls on service g that ended by a raise or a close
Drops(g) == {i \in 1..Len(outcomes[g]) : outcomes[g][i] # "returned"}
\* the last getter call of caller p has returned
HasReturned(p) == getter[p].at = "idle" /\ getter[p].out = "returned"

\* ------------------------------------------------------------------ C18
\* C18: across a sequence of successful calls to a getter with no close and
\* no failure in between, the client is constructed exactly once, by the
\* first call, and every call returns that one instance.
C18_ConstructedOnceAndReused ==
    \A g \in Getters : Drops(g) = {} =>
        /\ made[g] <= 1
        /\ outcomes[g] # <<>> => made[g] = 1 /\ handle[g] = 1
        /\ \A p \in Procs : (getter[p].g = g /\ HasReturned(p)) =>
               /\ getter[p].value = 1
               /\ getter[p].inst # 0 <=> Len(outcomes[g]) = 1

\* a third successful call in a row returned the client the first one built
C18_Witness ==
    \E g \in Getters : \E p \in Procs :
        /\ Drops(g) = {} /\ Len(outcomes[g]) = 3
        /\ getter[p].g = g /\ HasReturned(p)
        /\ getter[p].value = 1 /\ getter[p].inst = 0 /\ made[g] = 1

\* ------------------------------------------------------------------ C19
\* C19: two first calls to get_mongodb_client or get_qdrant_client that
\* interleave between the `is None` test and the assignment can construct
\* two clients (C19_Witness); once no caller is between the test and the
\* assignment, the handle holds one of the clients constructed, it no longer
\* changes, and every call made from then on returns that instance without
\* constructing another.
C19_RaceIsBenign ==
    \A g \in Probed :
        /\ made[g] <= Cardinality(Procs)
        /\ (Constructing(g) = {} /\ made[g] > 0) => handle[g] \in 1..made[g]
        /\ \A p \in Procs : (getter[p].g = g /\ getter[p].settled # 0) =>
               /\ handle[g] = getter[p].settled
               /\ getter[p].inst = 0
               /\ HasReturned(p) => getter[p].value = getter[p].settled

\* both racing callers constructed a client and a later call returned the
\* instance the handle was left with
C19_Witness ==
    \E g \in Probed : \E p \in Procs :
        /\ made[g] = 2
        /\ getter[p].g = g /\ getter[p].settled # 0 /\ HasReturned(p)
        /\ getter[p].value = handle[g]

\* ------------------------------------------------------------------ C20
\* C20: when the constructor or the probe raises inside a getter, the call
\* ends by raising to its caller and leaves the handle None; the next call
\* of that getter constructs afresh (or raises in turn) and, if it returns,
\* returns the client it has just constructed.
C20_FailureResetsTheHandle ==
    \A p \in Procs :
        LET r == getter[p] IN
        /\ (r.fault /\ r.at = "idle") => r.out = "raised" /\ handle[r.g] = 0
        /\ (r.prior = "raised" /\ r.at \notin {"check", "construct"}) =>
               /\ r.inst # 0 \/ r.fault
               /\ HasReturned(p) =>
                      /\ r.inst = made[r.g] /\ r.value = r.inst
                      /\ LastOutcome(r.g) = "returned" => handle[r.g] = r.inst

\* a probe raised on the first client; the next call built and returned a second
C20_Witness ==
    \E p \in Procs :
        /\ getter[p].prior = "raised" /\ HasReturned(p)
        /\ getter[p].inst = 2 /\ getter[p].value = 2

\* ====================================================================
\* Connection management: create_collection, delete_collection,
\* get_collection_info, check_qdrant_connection, the close functions and
\* the reconnect functions, called one at a time by one caller. The
\* functions that need the client run the getter above, step by step.
\* ====================================================================
CollectionFns == {"create_collection", "delete_collection", "get_collection_info"}
ManagementFns == CollectionFns \cup {"check_qdrant_connection"}

Managing(p, fn, arg, at) ==
    [manage EXCEPT ![p] = [fn |-> fn, arg |-> arg, at |-> at, fault |-> FALSE,
                           out |-> "none", value |-> "none", had |-> handle["qdrant"]]]
Ended(p, out, value, fault) ==
    [manage EXCEPT ![p].at = "idle", ![p].out = out, ![p].value = value,
                   ![p].fault = fault]
\* the getter call made by the function has come back
ClientBack(p, out) ==
    /\ manage[p].at = "client"
    /\ getter[p].at = "idle"
    /\ getter[p].out = out

\* client = get_qdrant_client(): first statement of the three collection functions
collection_call(p, fn, c) ==
    /\ manage[p].at = "idle"
    /\ get_client(p, "qdrant")
    /\ manage' = Managing(p, fn, c, "client")
    /\ UNCHANGED <<stores, helperVars, handlerVars>>

\* a caller asks a getter for the client
getter_call(p, g) ==
    /\ manage[p].at = "idle"
    /\ get_client(p, g)
    /\ manage' = [Managing(p, "get", g, "client") EXCEPT ![p].had = handle[g]]
    /\ UNCHANGED <<stores, helperVars, handlerVars>>

\* get_qdrant_client() raised: except Exception as e: ...; raise
client_raised(p) ==
    /\ ClientBack(p, "raised")
    /\ manage' = Ended(p, "raised", "none", TRUE)
    /\ UNCHANGED <<stores, helperVars, handlerVars, handle, made, outcomes, getter, ncalls, nfail>>

\* the getter returned to a caller that asked for the client (or reconnected)
client_returned(p) ==
    /\ ClientBack(p, "returned")
    /\ manage[p].fn \in {"get", "reconnect"}
    /\ manage' = Ended(p, "returned", "client", manage[p].fault)
    /\ UNCHANGED <<stores, helperVars, handlerVars, handle, made, outcomes, getter, ncalls, nfail>>

\* what Qdrant answers to the call of a collection function
Refuses(fn, c) ==
    \/ fn = "create_collection" /\ c \in qdrantCols       \* already exists
    \/ fn = "get_collection_info" /\ c \notin qdrantCols  \* not found

\* client.create_collection / client.delete_collection / client.get_collection
\* succeeds: return True, return True, return {...}
qdrant_call_Ok(p) ==
    /\ ClientBack(p, "returned")
    /\ manage[p].fn \in CollectionFns
    /\ ~Refuses(manage[p].fn, manage[p].arg)
    /\ qdrantCols' = CASE manage[p].fn = "create_collection" -> qdrantCols \cup {manage[p].arg}
                       [] manage[p].fn = "delete_collection" -> qdrantCols \ {manage[p].arg}
                       [] OTHER -> qdrantCols
    /\ vecIndex' = IF manage[p].fn = "delete_collection"
                   THEN [vecIndex EXCEPT ![manage[p].arg] = {}] ELSE vecIndex
    /\ manage' = Ended(p, "returned",
                       IF manage[p].fn = "get_collection_info" THEN "info" ELSE "True", FALSE)
    /\ UNCHANGED <<joinTable, nextId, helperVars, handlerVars, handle, made, outcomes,
                   getter, ncalls, nfail>>

\* Qdrant refuses the call: except Exception as e: ...; raise
qdrant_call_Refused(p) ==
    /\ ClientBack(p, "returned")
    /\ manage[p].fn \in CollectionFns
    /\ Refuses(manage[p].fn, manage[p].arg)
    /\ manage' = Ended(p, "raised", "none", TRUE)
    /\ UNCHANGED <<stores, helperVars, handlerVars, handle, made, outcomes, getter, ncalls, nfail>>

\* the call to Qdrant fails on the way: except Exception as e: ...; raise
qdrant_call_Fail(p) ==
    /\ ClientBack(p, "returned")
    /\ manage[p].fn \in CollectionFns
    /\ CanFail
    /\ nfail' = nfail + 1
    /\ manage' = Ended(p, "raised", "none", TRUE)
    /\ UNCHANGED <<stores, helperVars, handlerVars, handle, made, outcomes, getter, ncalls>>

\* check_qdrant_connection: if _client is None: return False;
\* _client.get_collections(); return True
check_qdrant_connection(p) ==
    /\ manage[p].at = "idle"
    /\ ncalls < MaxGets
    /\ ncalls' = ncalls + 1
    /\ manage' = [Managing(p, "check_qdrant_connection", "qdrant", "idle") EXCEPT
                     ![p].out = "returned",
                     ![p].value = IF handle["qdrant"] = 0 THEN "False" ELSE "True"]
    /\ UNCHANGED <<stores, helperVars, handlerVars, handle, made, outcomes, getter, nfail>>

\* _client.get_collections() raises: except Exception: raise
check_qdrant_connection_Fail(p) ==
    /\ manage[p].at = "idle"
    /\ ncalls < MaxGets
    /\ handle["qdrant"] # 0
    /\ CanFail
    /\ ncalls' = ncalls + 1
    /\ nfail' = nfail + 1
    /\ manage' = [Managing(p, "check_qdrant_connection", "qdrant", "idle") EXCEPT
                     ![p].out = "raised", ![p].fault = TRUE]
    /\ UNCHANGED <<stores, helperVars, handlerVars, handle, made, outcomes, getter>>

\* the functions that start by closing the connection, and where they go next
Closers == {"close", "reconnect"}
AfterClose(fn) == IF fn = "reconnect" THEN "closed" ELSE "idle"
\* reconnect_*: close_*_connection() is followed by a getter call
RoomFor(fn) == fn = "reconnect" => ncalls + 1 < MaxGets

\* close_mongodb_connection / close_qdrant_connection, alone or as the first
\* statement of reconnect_mongodb / reconnect_qdrant
close_call(p, g, fn) ==
    /\ manage[p].at = "idle"
    /\ RoomFor(fn)
    /\ close_connection(g)
    /\ manage' = [Managing(p, fn, g, AfterClose(fn)) EXCEPT
                     ![p].had = handle[g],
                     ![p].out = IF fn = "close" THEN "returned" ELSE "none",
                     ![p].value = IF fn = "close" THEN "None" ELSE "none"]
    /\ UNCHANGED <<stores, helperVars, handlerVars>>

\* close_mongodb_connection: _client.close() raises; the except clause logs,
\* _client = None is not reached
close_call_Fail(p, fn) ==
    /\ manage[p].at = "idle"
    /\ RoomFor(fn)
    /\ ncalls < MaxGets
    /\ Running("mongodb") = {}
    /\ handle["mongodb"] # 0
    /\ CanFail
    /\ ncalls' = ncalls + 1
    /\ nfail' = nfail + 1
    /\ manage' = [Managing(p, fn, "mongodb", AfterClose(fn)) EXCEPT
                     ![p].had = handle["mongodb"],
                     ![p].fault = TRUE,
                     ![p].out = IF fn = "close" THEN "returned" ELSE "none",
                     ![p].value = IF fn = "close" THEN "None" ELSE "none"]
    /\ UNCHANGED <<stores, helperVars, handlerVars, handle, made, outcomes, getter>>

\* reconnect_mongodb / reconnect_qdrant: return get_*_client()
reconnect_get(p) ==
    /\ manage[p].at = "closed"
    /\ get_client(p, manage[p].arg)
    /\ manage' = [manage EXCEPT ![p].at = "client"]
    /\ UNCHANGED <<stores, helperVars, handlerVars>>

InitManage == InitGetters

StepManage(p) ==
    \/ \E fn \in CollectionFns : \E c \in Collections : collection_call(p, fn, c)
    \/ \E g \in Closable : getter_call(p, g)
    \/ client_raised(p)
    \/ client_returned(p)
    \/ qdrant_call_Ok(p)
    \/ qdrant_call_Refused(p)
    \/ qdrant_call_Fail(p)
    \/ check_qdrant_connection(p)
    \/ check_qdrant_connection_Fail(p)
    \/ \E g \in Closable : \E fn \in Closers : close_call(p, g, fn)
    \/ \E fn \in Closers : close_call_Fail(p, fn)
    \/ reconnect_get(p)
    \/ client_is_None(p) /\ UNCHANGED <<stores, helperVars, handlerVars, manage>>
    \/ construct_Ok(p) /\ UNCHANGED <<stores, helperVars, handlerVars, manage>>
    \/ construct_Fail(p) /\ UNCHANGED <<stores, helperVars, handlerVars, manage>>
    \/ assign_client(p) /\ UNCHANGED <<stores, helperVars, handlerVars, manage>>
    \/ probe_Ok(p) /\ UNCHANGED <<stores, helperVars, handlerVars, manage>>
    \/ probe_Fail(p) /\ UNCHANGED <<stores, helperVars, handlerVars, manage>>
    \/ return_client(p) /\ UNCHANGED <<stores, helperVars, handlerVars, manage>>
    \/ except_client(p) /\ UNCHANGED <<stores, helperVars, handlerVars, manage>>

NextManage == \E p \in SeqProcs : StepManage(p)

SpecManage == InitManage /\ [][NextManage]_vars

\* ------------------------------------------------------------------
\* Vocabulary of the connection management claims
\* the last management call of caller p is over
Over(p, fns) == manage[p].fn \in fns /\ manage[p].at = "idle"
\* the value by which a management function would signal failure
FailureValue(fn) == IF fn = "get_collection_info" THEN "None" ELSE "False"

\* ------------------------------------------------------------------ C21
\* C21 (as stated): whenever acquiring the client or the Qdrant call fails
\* inside create_collection, delete_collection, get_collection_info or
\* check_qdrant_connection, the function returns (False, False, None, False)
\* and raises nothing.
C21_FailureSignalledByValue ==
    \A p \in Procs : (Over(p, ManagementFns) /\ manage[p].fault) =>
        /\ manage[p].out = "returned"
        /\ manage[p].value = FailureValue(manage[p].fn)

C22_EmptyFiltersDeleteNothing ==
    (Served("DELETE") /\ req.f = {}) =>
        /\ resp.deleted = 0
        /\ documents[req.entity] = req.docs
        /\ delete(req.docs, {}).deleted = 0

\* ------------------------------------------------------------------ C24
\* the last store operation of the call in progress, with its outcome
LastLogged == IF log[H] = <<>> THEN <<"none", "none">> ELSE log[H][Len(log[H])]
\* the call is past the collection check and creation of get_langchain_qdrant
PastCreation == \E i \in 1..Len(log[H]) : log[H][i][1] = "construct"

\* C24: inside get_langchain_qdrant, create_collection is the next operation
\* exactly when exists_collection answered False, and the answer is that of
\* Qdrant; when nothing fails the collection is created by the call exactly
\* when it did not exist before it, and the vector store then constructed is
\* bound to an existing collection c. When the embedding cannot be obtained
\* the call ends there and raises.
C24_CreatesTheCollectionWhenMissing ==
    /\ LastLogged[1] = "exists" =>
           /\ pc[H] = "create" <=> ~loc[H].exists
           /\ pc[H] = "construct" <=> loc[H].exists
           /\ LastLogged[2] = "ok" => (loc[H].exists <=> call[H].c \in qdrantCols)
    /\ InLog("create", "ok") => call[H].c \notin pre[H].cols
    /\ (LogAllOk /\ PastCreation) =>
           /\ InLog("create", "ok") <=> call[H].c \notin pre[H].cols
           /\ call[H].c \in qdrantCols
    /\ LastLogged = <<"construct", "ok">> => call[H].c \in qdrantCols
    /\ InLog("embed", "raise") =>
           /\ LastLogged = <<"embed", "raise">>
           /\ pc[H] = "idle" /\ ret[H].status = "raise"

\* an insert_vecdb on a collection that did not exist created it, and one on
\* the collection it left went on without creating
C24_Witness ==
    /\ Returned("insert") /\ LogAllOk
    /\ call[H].c \in pre[H].cols
    /\ ~InLog("create", "ok") /\ InLog("construct", "ok")
    /\ Cardinality(Entries(call[H].c)) = 2

\* ------------------------------------------------------------------ C25
\* the places (entry, position) of the Join Table of c that hold ID i
Holders(c, i) ==
    UNION {{<<k, j>> : j \in {n \in 1..Len(joinTable[c][k].qids) :
                                 joinTable[c][k].qids[n] = i}} :
           k \in 1..Len(joinTable[c])}
\* every ID recorded in the Join Table of c
Recorded(c) == UNION {SeqToSet(joinTable[c][k].qids) : k \in 1..Len(joinTable[c])}

\* C25: between the calls of a sequence of insert_vecdb, delete_vecdb and
\* update_vecdb calls in which nothing has failed, every Vector Entry ID of a
\* collection is recorded exactly once in its Join Table (in one Join Entry)
\* and every recorded ID is that of a Vector Entry.
C25_IndexAndJoinTableAgree ==
    (nfail = 0 /\ pc[H] = "idle") =>
        \A c \in Collections :
            /\ \A i \in VecIds(c) : Cardinality(Holders(c, i)) = 1
            /\ Recorded(c) = VecIds(c)

\* an update has replaced an indexed record by one of two chunks or more: the
\* new IDs are the ones recorded, the old ones are gone from both stores
C25_Witness ==
    /\ nfail = 0 /\ Returned("update")
    /\ MatchingBefore # {}
    /\ Cardinality(VecIds(call[H].c)) >= 2
    /\ Recorded(call[H].c) = VecIds(call[H].c)

\* ------------------------------------------------------------------ C26
\* one caller ran insert_vecdb and the other delete_vecdb, with filters that
\* select the inserted metadata, and both have returned
InsertRacedDelete ==
    \E p \in Procs : \E q \in Procs :
        /\ call[p].op = "insert" /\ call[q].op = "delete"
        /\ call[p].c = call[q].c /\ Matches(call[q].f, call[p].m)
        /\ pc[p] = "idle" /\ pc[q] = "idle"
        /\ ret[p].status = "ok" /\ ret[q].status = "ok"

\* C26 (as stated): a delete_vecdb and an insert_vecdb whose metadata the
\* filters select, run concurrently, never leave orphan Vector Entries: the
\* delete removes only Join Entries whose qids it has deleted from the index.
C26_ConcurrentInsertAndDeleteLeaveNoOrphans ==
    InsertRacedDelete => OrphansIn(Snapshot, RaceCollection) = {}

\* ------------------------------------------------------------------ C27
\* C27 (as stated): after a failure-free update_vecdb(c, f, t, m) with m
\* matching f, exactly one Join Entry of c matches f, whatever matched before.
C27_UpdateLeavesOneMatchingEntry ==
    (Returned("update") /\ LogAllOk /\ Matches(call[H].f, call[H].m)) =>
        Len(FindDocs(call[H].c, call[H].f)) = 1

\* ------------------------------------------------------------------ C28
\* the Records of the request's entity type that are in the document store
\* after the call
Remaining == {documents[req.entity][i] : i \in 1..Len(documents[req.entity])}

\* C28 (as stated): a DELETE handler call on an indexed entity type removes
\* neither the Join Entry nor the Vector Entries of a Record that is still in
\* the document store after the call.
C28_DeleteSparesTheRemainingRecords ==
    (Served("DELETE") /\ req.entity \in IndexedTypes) =>
        \A d \in Remaining : \A x \in EntriesBefore(metadata(d)) :
            (resp.deleted = 0 \/ metadata(d) # metadata(Target)) =>
                /\ x \in Entries(req.entity)
                /\ SeqToSet(x.qids) \subseteq VecIds(req.entity)

\* ------------------------------------------------------------------
\* Create requests of the indexed entity types, served one at a time, in
\* which insert_vecdb may raise after the Record was inserted.
NextCreate ==
    \/ \E e \in IndexedTypes : create_scholarship(e)
    \/ \E e \in IndexedTypes : create_scholarship_Fail(e)

SpecCreate == InitCrud /\ [][NextCreate]_vars

\* ------------------------------------------------------------------ C29
\* the create request just served ended in the except clause of its handler
CreateFailed == req.op = "POST" /\ req.entity \in IndexedTypes /\ ~resp.success
\* how many Records equal to d the document store of entity type e holds
Copies(ds, d) == Cardinality({i \in 1..Len(ds) : ds[i] = d})

\* C29: when insert_vecdb raises after the insert of a create handler, the
\* handler answers with the server error and the Record stays in the document
\* store (no compensating delete) while the Join Table is as it was: no Join
\* Entry has been made for the Record; a retry of the same create then adds a
\* second copy of the Record.
C29_FailedCreateKeepsTheRecord ==
    /\ [](CreateFailed =>
            /\ resp = ServerError
            /\ documents[req.entity] = Append(req.docs, req.data)
            /\ joinTable[req.entity] = req.stores.join[req.entity]
            /\ EntriesBefore(metadata(req.data)) = {} =>
                   EntriesWith(req.entity, metadata(req.data)) = {})
    /\ [][(CreateFailed /\ req'.op = "POST" /\ req'.entity = req.entity
             /\ req'.data = req.data /\ ncalls' = ncalls + 1) =>
            Copies(documents'[req.entity], req.data)
                = Copies(documents[req.entity], req.data) + 1]_vars

\* a create failed in insert_vecdb and its retry succeeded: two copies of the
\* Record, one Join Entry
C29_Witness ==
    /\ Served("POST") /\ req.entity \in IndexedTypes /\ nfail = 1
    /\ documents[req.entity] = <<req.data, req.data>>
    /\ Cardinality(EntriesWith(req.entity, metadata(req.data))) = 1

\* ------------------------------------------------------------------ C30
\* the store operations op of the call of caller p, with outcome
LoggedBy(p, op, outcome) == \E i \in 1..Len(log[p]) : log[p][i] = <<op, outcome>>
\* both callers run insert_vecdb on the same collection and both were told by
\* exists_collection that it does not exist
BothSawNoCollection ==
    /\ \A p \in Procs : call[p].op = "insert" /\ call[p].c = RaceCollection
    /\ \A p \in Procs : \E outcome \in {"ok", "raise"} : LoggedBy(p, "create", outcome)
\* the caller whose create_collection Qdrant refused
Losers == {p \in Procs : LoggedBy(p, "create", "raise")}

\* C30: when two concurrent insert_vecdb calls both find that the collection
\* does not exist, one create_collection succeeds and the other is refused;
\* the refusal is passed over, both calls return their chunk IDs, and each has
\* its own Join Entry, with IDs of its own that are in the index.
C30_BothInsertsSurviveTheCreationRace ==
    BothSawNoCollection =>
        /\ RaceCollection \in qdrantCols
        /\ Cardinality(Losers) = 1
        /\ \A p \in Procs : pc[p] = "idle" =>
               /\ ret[p].status = "ok"
               /\ [meta |-> call[p].m, qids |-> ret[p].value] \in Entries(RaceCollection)
               /\ SeqToSet(ret[p].value) \subseteq VecIds(RaceCollection)
               /\ Len(ret[p].value) = call[p].t
        /\ (\A p \in Procs : pc[p] = "idle") =>
               /\ Len(joinTable[RaceCollection]) = 2
               /\ SeqToSet(ret["h1"].value) \cap SeqToSet(ret["h2"].value) = {}

\* both inserts have returned, one of them after its create_collection failed
C30_Witness ==
    /\ BothSawNoCollection
    /\ \A p \in Procs : pc[p] = "idle" /\ ret[p].status = "ok" /\ call[p].t > 0
    /\ Losers # {}

====
